---- MODULE Spec2Model ----
(***************************************************************************)
(* Model of filesystem/filesystem.py: FilesystemState (the two dicts and  *)
(* the two per-pass sets), FilesystemOperations (exists/rename/delete on  *)
(* a directory) and Filesystem (add, create, move, move_temporary,        *)
(* finish_sync, save).  One action per public call; an exception ends the *)
(* call where the code would leave it.                                    *)
(***************************************************************************)
EXTENDS Integers, Sequences, FiniteSets, TLC

\* ------------------------------------------------------------------ bounds
MaxTemp == 2       \* distinct uuid4 names that can be in use at once
MaxCalls == 3      \* calls and external events in one behaviour

Ids == {"a", "b", "c"}
Names == {<<"name", k>> : k \in {1, 2, 3}}
Temps == {<<"uuid", k>> : k \in 1..MaxTemp}
Files == Names \cup Temps

Absent == "absent"       \* no file under that name
Partial == "partial"     \* a file a failed creator left behind

\* A call ends with err = "none" (it returned) or with the exception it raised:
\* "ConflictError" / "NotFoundError" (the RuntimeErrors of FilesystemState),
\* "IoError" (os.rename / os.unlink), "ProducerError" (an Exception of the
\* creator), "KeyboardInterrupt" (a BaseException of the creator).

\* ------------------------------------------------------------ dict helpers
EmptyDict == [x \in {} |-> x]
Put(d, k, v) == [x \in (DOMAIN d) \cup {k} |-> IF x = k THEN v ELSE d[x]]
Pop(d, k) == [x \in (DOMAIN d) \ {k} |-> d[x]]
Values(d) == {d[x] : x \in DOMAIN d}
Inverse(d) == [v \in Values(d) |-> CHOOSE x \in DOMAIN d : d[x] = v]

Perms(S) == {q \in [1..Cardinality(S) -> S] : \A x \in S : \E k \in DOMAIN q : q[k] = x}

\* ------------------------------------------------------------------- state
VARIABLES
    filenames,            \* FilesystemState.filenames: identifier -> filename
    identifiers,          \* FilesystemState.identifiers: filename -> identifier
    touched_filenames,    \* FilesystemState.touched_filenames
    temporary_filenames,  \* FilesystemState.temporary_filenames
    disk,                 \* the managed directory: filename -> content or Absent
    stored,               \* the pickle file: whether it is there, and the items
                          \* of the two dicts written to it
    last,                 \* the last call: operation, arguments, port calls, outcome
    pass,                 \* history of the current pass (not program state)
    env,                  \* the calls made so far and the one fault a behaviour has:
                          \* a file removed from outside, a rename/delete failing
                          \* on an existing path, or a creator raising
    run,                  \* download(): where the driver is, the exception it will
                          \* re-raise, and the fs calls it has made (with outcome)
    f_retry               \* one call of a retry-wrapped function: tries, what each
                          \* attempt of func would do, mtries, attempts made, outcome

vars == <<filenames, identifiers, touched_filenames, temporary_filenames,
          disk, stored, last, pass, env, run, f_retry>>

\* pickle.dump writes the items of the two dicts; pickle.load builds the
\* dicts from the items it reads
DictItems(d) == {<<k, d[k]>> : k \in DOMAIN d}
DictOf(items) == [k \in {t[1] : t \in items} |-> (CHOOSE t \in items : t[1] = k)[2]]

NoRecord == [present |-> FALSE, filenames |-> {}, identifiers |-> {}]

\* FilesystemState.__init__ that does not read the record
state_init_ignores_record(rec) ==
    [filenames |-> EmptyDict, identifiers |-> EmptyDict]

\* FilesystemState.__init__: the two dicts, from the record or empty
state_init(rec) ==
    IF rec.present
    THEN [filenames |-> DictOf(rec.filenames), identifiers |-> DictOf(rec.identifiers)]
    ELSE [filenames |-> EmptyDict, identifiers |-> EmptyDict]

\* ----------------------------------------------- the call's working state
\* A call's code runs on a record s of the object's fields, the directory,
\* the port calls made so far and the exception raised so far (err).
Failed(s) == s.err # "none"
Raise(s, e) == [s EXCEPT !.err = e]

has_filename(s, filename) == filename \in DOMAIN s.identifiers
has_identifier(s, identifier) == identifier \in DOMAIN s.filenames

state_add(s, identifier, filename, temporary) ==
    IF Failed(s) THEN s
    ELSE IF has_identifier(s, identifier) THEN Raise(s, "ConflictError")
    ELSE IF has_filename(s, filename) THEN Raise(s, "ConflictError")
    ELSE [s EXCEPT !.filenames = Put(@, identifier, filename),
                   !.identifiers = Put(@, filename, identifier),
                   !.touched = IF temporary THEN @ ELSE @ \cup {filename},
                   !.temporary = IF temporary THEN @ \cup {filename} ELSE @]

\* touch without self.touched_filenames.add(filename)
touch_marks_nothing(s, identifier, filename) ==
    IF Failed(s) THEN s
    ELSE IF ~has_identifier(s, identifier) THEN Raise(s, "NotFoundError")
    ELSE IF ~has_filename(s, filename) THEN Raise(s, "NotFoundError")
    ELSE s

touch(s, identifier, filename) ==
    IF Failed(s) THEN s
    ELSE IF ~has_identifier(s, identifier) THEN Raise(s, "NotFoundError")
    ELSE IF ~has_filename(s, filename) THEN Raise(s, "NotFoundError")
    ELSE [s EXCEPT !.touched = @ \cup {filename}]

\* remove_identifier without self.identifiers.pop(filename)
remove_identifier_keeps_filename(s, identifier) ==
    IF Failed(s) THEN s
    ELSE IF ~has_identifier(s, identifier) THEN Raise(s, "NotFoundError")
    ELSE LET filename == s.filenames[identifier]
         IN [s EXCEPT !.filenames = Pop(@, identifier),
                      !.touched = @ \ {filename}]

remove_identifier(s, identifier) ==
    IF Failed(s) THEN s
    ELSE IF ~has_identifier(s, identifier) THEN Raise(s, "NotFoundError")
    ELSE LET filename == s.filenames[identifier]
         IN [s EXCEPT !.identifiers = Pop(@, filename),
                      !.filenames = Pop(@, identifier),
                      !.touched = @ \ {filename}]

remove_filename(s, filename) ==
    IF Failed(s) THEN s
    ELSE IF ~has_filename(s, filename) THEN Raise(s, "NotFoundError")
    ELSE LET identifier == s.identifiers[filename]
         IN [s EXCEPT !.identifiers = Pop(@, filename),
                      !.filenames = Pop(@, identifier),
                      !.touched = @ \ {filename}]

get_untouched_filenames(s) == Values(s.filenames) \ s.touched

clear_touched_filenames(s) == IF Failed(s) THEN s ELSE [s EXCEPT !.touched = {}]

\* clear_temporary_filenames that leaves the set as it is
clear_temporary_filenames_keeps(s) == s

clear_temporary_filenames(s) == IF Failed(s) THEN s ELSE [s EXCEPT !.temporary = {}]

\* FilesystemState.save
state_save(s) ==
    IF Failed(s) THEN s
    ELSE [s EXCEPT !.stored = [present |-> TRUE,
                               filenames |-> DictItems(s.filenames),
                               identifiers |-> DictItems(s.identifiers)]]

\* ------------------------------------------------- FilesystemOperations
\* os.path.exists, os.rename, os.unlink on the managed directory.  rename and
\* unlink raise for a missing path; s.failAt names the port call (1st, 2nd,
\* ...) of this call that fails although its path is there (0: none does).
exists(s, filename) == s.disk[filename] # Absent

PortCall(op, src, dst) == [op |-> op, src |-> src, dst |-> dst]

rename(s, old, new) ==
    IF Failed(s) THEN s
    ELSE LET t == [s EXCEPT !.calls = Append(@, PortCall("rename", old, new)),
                            !.ports = @ + 1]
         IN IF t.ports = s.failAt \/ ~exists(s, old) THEN Raise(t, "IoError")
            ELSE [t EXCEPT !.disk = [f \in DOMAIN s.disk |->
                                       IF f = new THEN s.disk[old]
                                       ELSE IF f = old THEN Absent
                                       ELSE s.disk[f]]]

delete(s, filename) ==
    IF Failed(s) THEN s
    ELSE LET t == [s EXCEPT !.calls = Append(@, PortCall("delete", filename, filename)),
                            !.ports = @ + 1]
         IN IF t.ports = s.failAt \/ ~exists(s, filename) THEN Raise(t, "IoError")
            ELSE [t EXCEPT !.disk[filename] = Absent]

\* The creator callback: on success it leaves the item's file at the path; it
\* can raise an Exception (ProducerError) or a BaseException such as
\* KeyboardInterrupt, with or without a partial file written.
creator(s, identifier, filename) ==
    IF Failed(s) THEN s
    ELSE LET t == [s EXCEPT !.calls = Append(@, PortCall("creator", filename, filename)),
                            !.produced = @ \cup {identifier}]
         IN CASE s.prod = "ok" -> [t EXCEPT !.disk[filename] = identifier]
              [] s.prod = "raise" ->
                    Raise([t EXCEPT !.disk[filename] =
                               IF s.partial THEN Partial ELSE @], "ProducerError")
              [] s.prod = "interrupt" ->
                    Raise([t EXCEPT !.disk[filename] =
                               IF s.partial THEN Partial ELSE @], "KeyboardInterrupt")

\* ------------------------------------------------------------- Filesystem
create(s, identifier, filename) ==
    LET s1 == state_add(s, identifier, filename, FALSE)
        s2 == creator(s1, identifier, filename)
    IN IF Failed(s1) THEN s1
       ELSE IF s2.err = "ProducerError"
       THEN \* except Exception as e: roll back, delete, raise e
            LET s3 == remove_identifier([s2 EXCEPT !.err = "none"], identifier)
                s4 == delete(s3, filename)
            IN IF Failed(s4) THEN s4 ELSE Raise(s4, "ProducerError")
       ELSE s2

\* str(uuid.uuid4()): a name in use nowhere (not mapped, not on disk, not in
\* the temporary set)
FreeTemps(s) == {t \in Temps : /\ ~has_filename(s, t)
                               /\ ~exists(s, t)
                               /\ t \notin s.temporary}
uuid4(s) == CHOOSE t \in FreeTemps(s) : \A u \in FreeTemps(s) : t[2] <= u[2]

RECURSIVE move(_, _, _, _), move_temporary(_, _)

move(s, identifier, new_filename, temporary) ==
    IF Failed(s) THEN s
    ELSE IF has_filename(s, new_filename) /\ s.identifiers[new_filename] = identifier
    THEN touch(s, identifier, new_filename)
    ELSE LET s1 == IF has_filename(s, new_filename)
                   THEN move_temporary(s, s.identifiers[new_filename])
                   ELSE s
         IN IF Failed(s1) THEN s1
            ELSE IF ~has_identifier(s1, identifier) THEN Raise(s1, "NotFoundError")
            ELSE LET old_filename == s1.filenames[identifier]
                     s2 == remove_identifier(s1, identifier)
                     s3 == state_add(s2, identifier, new_filename, temporary)
                 IN rename(s3, old_filename, new_filename)

\* move_temporary that leaves out temporary=True
move_temporary_touched(s, identifier) ==
    IF Failed(s) THEN s
    ELSE IF FreeTemps(s) = {} THEN Raise(s, "OutOfTemps")
    ELSE move(s, identifier, uuid4(s), FALSE)

move_temporary(s, identifier) ==
    IF Failed(s) THEN s
    ELSE IF FreeTemps(s) = {} THEN Raise(s, "OutOfTemps")
    ELSE move(s, identifier, uuid4(s), TRUE)

\* add that downloads a known identifier again without looking at the path
add_always_creates(s, identifier, filename) ==
    IF has_identifier(s, identifier)
    THEN create(remove_identifier(s, identifier), identifier, filename)
    ELSE IF has_filename(s, filename)
    THEN create(move_temporary(s, s.identifiers[filename]), identifier, filename)
    ELSE create(s, identifier, filename)

\* add that drops the other identifier's mapping instead of move_temporary
add_collision_drops(s, identifier, filename) ==
    IF has_identifier(s, identifier)
    THEN IF ~exists(s, filename)
         THEN create(remove_identifier(s, identifier), identifier, filename)
         ELSE move(s, identifier, filename, FALSE)
    ELSE IF has_filename(s, filename)
    THEN create(remove_filename(s, filename), identifier, filename)
    ELSE create(s, identifier, filename)

\* add without the "File has been deleted since last run" branch
add_always_moves(s, identifier, filename) ==
    IF has_identifier(s, identifier)
    THEN move(s, identifier, filename, FALSE)
    ELSE IF has_filename(s, filename)
    THEN create(move_temporary(s, s.identifiers[filename]), identifier, filename)
    ELSE create(s, identifier, filename)

add(s, identifier, filename) ==
    IF has_identifier(s, identifier)
    THEN IF ~exists(s, filename)
         THEN create(remove_identifier(s, identifier), identifier, filename)
         ELSE move(s, identifier, filename, FALSE)
    ELSE IF has_filename(s, filename)
    THEN create(move_temporary(s, s.identifiers[filename]), identifier, filename)
    ELSE create(s, identifier, filename)

\* for filename in untouched_filenames: remove_filename; delete
RECURSIVE stale_loop(_, _)
stale_loop(s, order) ==
    IF order = <<>> THEN s
    ELSE stale_loop(delete(remove_filename(s, Head(order)), Head(order)), Tail(order))

\* for filename in temporary_filenames: if has_filename: remove_filename; delete
RECURSIVE temporary_loop(_, _)
temporary_loop(s, order) ==
    IF order = <<>> THEN s
    ELSE LET filename == Head(order)
             s1 == IF ~Failed(s) /\ has_filename(s, filename)
                   THEN remove_filename(s, filename) ELSE s
         IN temporary_loop(delete(s1, filename), Tail(order))

\* finish_sync that ends with self.state.save()
finish_sync_saves(s, stale_order, temp_order) ==
    LET s1 == clear_temporary_filenames(
                  temporary_loop(
                      clear_touched_filenames(stale_loop(s, stale_order)), temp_order))
    IN state_save(s1)

finish_sync(s, stale_order, temp_order) ==
    clear_temporary_filenames(
        temporary_loop(
            clear_touched_filenames(stale_loop(s, stale_order)), temp_order))

\* Filesystem.save: for filename in temporary_filenames: remove_filename; delete
RECURSIVE save_loop(_, _)
save_loop(s, order) ==
    IF order = <<>> THEN s
    ELSE save_loop(delete(remove_filename(s, Head(order)), Head(order)), Tail(order))

save(s, temp_order) ==
    LET s1 == clear_temporary_filenames(
                  save_loop(clear_touched_filenames(s), temp_order))
    IN state_save(s1)

\* ------------------------------------------------------------ the actions
NoId == "-"
NoFile == <<"-", 0>>

\* the directory holds exactly one file per mapped identifier, with its content
DiskMatches(fn, d) ==
    /\ \A f \in DOMAIN d : d[f] # Absent <=> f \in Values(fn)
    /\ \A i \in DOMAIN fn : d[fn[i]] = i

Begin(prod, partial, failAt) ==
    [filenames |-> filenames, identifiers |-> identifiers,
     touched |-> touched_filenames, temporary |-> temporary_filenames,
     disk |-> disk, stored |-> stored,
     calls |-> <<>>, ports |-> 0, produced |-> {}, err |-> "none",
     prod |-> prod, partial |-> partial, failAt |-> failAt]

\* the inputs name only what the call meets: the failing port call is made,
\* a raising creator is called
InputsAllowed(prod, partial, failAt) ==
    /\ env.calls < MaxCalls
    /\ (failAt > 0 \/ prod # "ok") => env.fault = "none"
    /\ ~(failAt > 0 /\ prod # "ok")
    /\ partial => prod # "ok"

InputsUsed(s) ==
    /\ s.err # "OutOfTemps"
    /\ s.failAt > 0 => (s.ports = s.failAt /\ s.err = "IoError")
    /\ s.prod # "ok" => \E k \in DOMAIN s.calls : s.calls[k].op = "creator"

Commit(s, op, identifier, filename) ==
    /\ filenames' = s.filenames
    /\ identifiers' = s.identifiers
    /\ touched_filenames' = s.touched
    /\ temporary_filenames' = s.temporary
    /\ disk' = s.disk
    /\ stored' = s.stored
    /\ last' = [op |-> op, id |-> identifier, filename |-> filename,
                prod |-> s.prod, partial |-> s.partial, failAt |-> s.failAt,
                calls |-> s.calls, err |-> s.err]
    /\ env' = [env EXCEPT !.fault = IF s.failAt > 0 THEN "port"
                                    ELSE IF s.prod # "ok" THEN "creator" ELSE @,
                          !.calls = @ + 1]

NewPass(fn, d, tch, tmp) ==
    [phase |-> "InProgress", start |-> fn,
     clean |-> DiskMatches(fn, d) /\ tch = {} /\ tmp = {},
     requested |-> EmptyDict, ok |-> TRUE, produced |-> {}]

CurrentPass ==
    IF pass.phase = "InProgress" THEN pass
    ELSE NewPass(filenames, disk, touched_filenames, temporary_filenames)

\* fs.add(identifier, filename, creator)
Request(identifier, filename, prod, partial, failAt) ==
    LET s == add(Begin(prod, partial, failAt), identifier, filename)
        p == CurrentPass
    IN /\ InputsAllowed(prod, partial, failAt)
       /\ InputsUsed(s)
       /\ Commit(s, "add", identifier, filename)
       /\ pass' = [p EXCEPT
                      !.requested = Put(@, identifier, filename),
                      !.ok = /\ @
                             /\ s.err = "none"
                             /\ identifier \notin DOMAIN p.requested
                             /\ filename \notin Values(p.requested),
                      !.produced = @ \cup s.produced]

\* fs.finish_sync()
FinishSync(stale_order, temp_order, failAt) ==
    LET s == finish_sync(Begin("ok", FALSE, failAt), stale_order, temp_order)
    IN /\ InputsAllowed("ok", FALSE, failAt)
       /\ InputsUsed(s)
       /\ Commit(s, "finish_sync", NoId, NoFile)
       /\ pass' = [CurrentPass EXCEPT !.phase = "Completed"]

\* fs.save()
Save(temp_order, failAt) ==
    LET s == save(Begin("ok", FALSE, failAt), temp_order)
    IN /\ InputsAllowed("ok", FALSE, failAt)
       /\ InputsUsed(s)
       /\ Commit(s, "save", NoId, NoFile)
       /\ pass' = [CurrentPass EXCEPT !.phase = "Persisted"]

\* filesystem.Filesystem(dirname) on the same directory: FilesystemState.__init__
Restart ==
    LET fn == state_init(stored).filenames
        ids == state_init(stored).identifiers
    IN /\ env.calls < MaxCalls
       /\ filenames' = fn
       /\ identifiers' = ids
       /\ touched_filenames' = {}
       /\ temporary_filenames' = {}
       /\ last' = [op |-> "init", id |-> NoId, filename |-> NoFile,
                   prod |-> "ok", partial |-> FALSE, failAt |-> 0,
                   calls |-> <<>>, err |-> "none"]
       /\ pass' = NewPass(fn, disk, {}, {})
       /\ env' = [env EXCEPT !.calls = @ + 1]
       /\ UNCHANGED <<disk, stored>>

\* a file is removed from the directory outside the engine, between two runs
\* (the engine owns the directory while it runs)
ExternalDelete(filename) ==
    /\ env.calls < MaxCalls
    /\ last.op = "init"
    /\ env.fault = "none"
    /\ disk[filename] # Absent
    /\ disk' = [disk EXCEPT ![filename] = Absent]
    /\ env' = [env EXCEPT !.fault = "external", !.calls = @ + 1]
    /\ pass' = [pass EXCEPT !.clean = FALSE]
    /\ UNCHANGED <<filenames, identifiers, touched_filenames,
                   temporary_filenames, stored, last>>

\* After construction on a directory a completed earlier run left: no record
\* and an empty directory, or a record {identifier: filename} over the
\* caller's names with exactly those files in the directory.  Identifiers and
\* names are interchangeable, so one map of each size stands for all.
\* download() right after fs = filesystem.Filesystem(working_directory)
RunStart == [pc |-> "loop", exc |-> "none", trace |-> <<>>]

\* no retry-wrapped call is being followed
NoRetry == [tries |-> 0, script |-> <<>>, mtries |-> 0, calls |-> 0,
            pc |-> "idle", out |-> <<"none", 0>>]

InitialMaps ==
    {EmptyDict,
     [i \in {"a"} |-> <<"name", 1>>],
     [i \in {"a", "b"} |-> IF i = "a" THEN <<"name", 1>> ELSE <<"name", 2>>],
     [i \in Ids |-> CASE i = "a" -> <<"name", 1>>
                      [] i = "b" -> <<"name", 2>>
                      [] i = "c" -> <<"name", 3>>]}

Init ==
    \E m \in InitialMaps, rec \in BOOLEAN :
        /\ rec \/ m = EmptyDict
        /\ filenames = m
        /\ identifiers = Inverse(m)
        /\ touched_filenames = {}
        /\ temporary_filenames = {}
        /\ disk = [f \in Files |-> IF f \in Values(m) THEN Inverse(m)[f] ELSE Absent]
        /\ stored = IF rec THEN [present |-> TRUE, filenames |-> DictItems(m),
                                 identifiers |-> DictItems(Inverse(m))]
                    ELSE NoRecord
        /\ last = [op |-> "init", id |-> NoId, filename |-> NoFile,
                   prod |-> "ok", partial |-> FALSE, failAt |-> 0,
                   calls |-> <<>>, err |-> "none"]
        /\ pass = NewPass(m, disk, {}, {})
        /\ env = [fault |-> "none", calls |-> 0]
        /\ run = RunStart
        /\ f_retry = NoRetry


\* the filenames fs.add can be called with for an identifier: the caller's
\* names, and the uuid name the identifier was evicted to (state.filenames
\* shows it)
RequestNames(i) ==
    Names \cup (IF i \in DOMAIN filenames /\ filenames[i] \in temporary_filenames
                THEN {filenames[i]} ELSE {})

\* the port calls a call can make fail: those it makes when none fails
Ports(s) == 0..(IF env.calls < MaxCalls THEN s.ports ELSE 0)

Next ==
    \/ \E i \in Ids, prod \in {"ok", "raise", "interrupt"}, partial \in BOOLEAN :
          \E f \in RequestNames(i) :
            \E failAt \in Ports(add(Begin(prod, partial, 0), i, f)) :
              Request(i, f, prod, partial, failAt) /\ UNCHANGED <<run, f_retry>>
    \/ \E so \in Perms(get_untouched_filenames(Begin("ok", FALSE, 0))),
          to \in Perms(temporary_filenames) :
          \E failAt \in Ports(finish_sync(Begin("ok", FALSE, 0), so, to)) :
            FinishSync(so, to, failAt) /\ UNCHANGED <<run, f_retry>>
    \/ \E to \in Perms(temporary_filenames) :
          \E failAt \in Ports(save(Begin("ok", FALSE, 0), to)) :
            Save(to, failAt) /\ UNCHANGED <<run, f_retry>>
    \/ Restart /\ UNCHANGED <<run, f_retry>>
    \/ \E f \in Files : ExternalDelete(f) /\ UNCHANGED <<run, f_retry>>

Spec == Init /\ [][Next]_vars

\* ------------------------------------------------------------ download()
\* The driver: try: for every photo fs.add(...); fs.finish_sync()
\*             except KeyboardInterrupt: pass
\*             finally: fs.save()
\* The photo list is any list: after a call that returned the loop either
\* has a next photo or is over.

\* a try block that goes on after a statement that raised
try_block_goes_on(next, err) == next

\* where control is after a statement of the try block: at the next
\* statement when it returned, in the finally clause when it raised
try_block(next, err) == IF err = "none" THEN next ELSE "finally"

\* the exception that leaves download() after the finally clause:
\* KeyboardInterrupt is caught, any other propagates
pending(err) == IF err = "KeyboardInterrupt" THEN "none" ELSE err

Traced(op, err) == Append(run.trace, [op |-> op, err |-> err])

\* fs.add(file_identifier, filename, creator) for the next photo
DriverAdd(identifier, filename, prod, partial, failAt) ==
    /\ run.pc = "loop"
    /\ Request(identifier, filename, prod, partial, failAt)
    /\ run' = [pc |-> try_block("loop", last'.err),
               exc |-> pending(last'.err),
               trace |-> Traced("add", last'.err)]
    /\ UNCHANGED f_retry

\* os.mkdir(dirname) for an album raises
DriverMkdirFails ==
    /\ run.pc = "loop"
    /\ run' = [pc |-> try_block("loop", "IoError"),
               exc |-> pending("IoError"),
               trace |-> run.trace]
    /\ UNCHANGED <<filenames, identifiers, touched_filenames, temporary_filenames,
                   disk, stored, last, pass, env, f_retry>>

\* the loops are over: fs.finish_sync()
DriverFinishSync(stale_order, temp_order, failAt) ==
    /\ run.pc = "loop"
    /\ FinishSync(stale_order, temp_order, failAt)
    /\ run' = [pc |-> try_block("finally", last'.err),
               exc |-> pending(last'.err),
               trace |-> Traced("finish_sync", last'.err)]
    /\ UNCHANGED f_retry

\* finally: fs.save(); then download() returns or raises
DriverSave(temp_order, failAt) ==
    /\ run.pc = "finally"
    /\ Save(temp_order, failAt)
    /\ run' = [pc |-> "done",
               exc |-> IF last'.err # "none" THEN last'.err ELSE run.exc,
               trace |-> Traced("save", last'.err)]
    /\ UNCHANGED f_retry

DriverNext ==
    \/ \E i \in Ids, f \in Names, prod \in {"ok", "raise", "interrupt"},
          partial \in BOOLEAN :
          \E failAt \in Ports(add(Begin(prod, partial, 0), i, f)) :
            DriverAdd(i, f, prod, partial, failAt)
    \/ DriverMkdirFails
    \/ \E so \in Perms(get_untouched_filenames(Begin("ok", FALSE, 0))),
          to \in Perms(temporary_filenames) :
          \E failAt \in Ports(finish_sync(Begin("ok", FALSE, 0), so, to)) :
            DriverFinishSync(so, to, failAt)
    \/ \E to \in Perms(temporary_filenames) :
          \E failAt \in Ports(save(Begin("ok", FALSE, 0), to)) :
            DriverSave(to, failAt)

DriverSpec == Init /\ [][DriverNext]_vars

\* ---------------------------------------------------------------- retry
\* retry(ExceptionsToCheck, tries=4)(func): f_retry.  What func does at each
\* attempt is an input: it returns ("ok"), raises an exception that is in
\* ExceptionsToCheck ("checked") or raises another one ("other").
tries == 4

Outcomes == {"ok", "checked", "other"}

RECURSIVE Scripts(_)
Scripts(n) == IF n = 0 THEN {<<>>}
              ELSE {Append(q, o) : q \in Scripts(n - 1), o \in Outcomes}

\* while mtries > 0
in_loop_one_more(mtries) == mtries > 0

\* while mtries > 1
in_loop(mtries) == mtries > 1

\* what the k-th call of func gives: its result or its exception
Attempt(script, k) == <<script[k], k>>

\* f_retry is called: mtries = tries
RetryInit ==
    /\ \E n \in 1..tries, script \in Scripts(tries + 1) :
          f_retry = [tries |-> n, script |-> script, mtries |-> n, calls |-> 0,
                     pc |-> "loop", out |-> <<"none", 0>>]
    /\ filenames = EmptyDict
    /\ identifiers = EmptyDict
    /\ touched_filenames = {}
    /\ temporary_filenames = {}
    /\ disk = [f \in Files |-> Absent]
    /\ stored = NoRecord
    /\ last = [op |-> "init", id |-> NoId, filename |-> NoFile,
               prod |-> "ok", partial |-> FALSE, failAt |-> 0,
               calls |-> <<>>, err |-> "none"]
    /\ pass = NewPass(EmptyDict, disk, {}, {})
    /\ env = [fault |-> "none", calls |-> 0]
    /\ run = RunStart

\* inside the while loop: try: return func(...) except ExceptionsToCheck: mtries -= 1
RetryInLoop ==
    LET k == f_retry.calls + 1
        o == Attempt(f_retry.script, k)
    IN /\ f_retry.pc = "loop"
       /\ in_loop(f_retry.mtries)
       /\ k <= Len(f_retry.script)
       /\ f_retry' = CASE o[1] = "ok" ->
                            [f_retry EXCEPT !.calls = k, !.pc = "returned", !.out = o]
                       [] o[1] = "checked" ->
                            [f_retry EXCEPT !.calls = k, !.mtries = @ - 1]
                       [] o[1] = "other" ->
                            [f_retry EXCEPT !.calls = k, !.pc = "raised", !.out = o]
       /\ UNCHANGED <<filenames, identifiers, touched_filenames, temporary_filenames,
                      disk, stored, last, pass, env, run>>

\* after the loop: return func(...)
RetryLast ==
    LET k == f_retry.calls + 1
        o == Attempt(f_retry.script, k)
    IN /\ f_retry.pc = "loop"
       /\ ~in_loop(f_retry.mtries)
       /\ k <= Len(f_retry.script)
       /\ f_retry' = [f_retry EXCEPT !.calls = k,
                                     !.pc = IF o[1] = "ok" THEN "returned" ELSE "raised",
                                     !.out = o]
       /\ UNCHANGED <<filenames, identifiers, touched_filenames, temporary_filenames,
                      disk, stored, last, pass, env, run>>

RetryNext == RetryInLoop \/ RetryLast

RetrySpec == RetryInit /\ [][RetryNext]_vars

\* --------------------------------------------------------------- claims
\* A step that is a call of fs.add / fs.finish_sync / fs.save: every action
\* sets last, so last' tells which call a step is.
Called(s_last, op) == s_last.op = op

HasCall(calls, op, src, dst) ==
    \E k \in DOMAIN calls : calls[k] = PortCall(op, src, dst)

\* C1: the identifier->filename dict and the filename->identifier dict are
\* exact inverses of each other in every reachable state, also after calls
\* that raised: same cardinality, and (i, f) is in one iff (f, i) is in the other.
C1_Bijection ==
    /\ Cardinality(DOMAIN filenames) = Cardinality(DOMAIN identifiers)
    /\ \A i \in DOMAIN filenames :
          filenames[i] \in DOMAIN identifiers /\ identifiers[filenames[i]] = i
    /\ \A f \in DOMAIN identifiers :
          identifiers[f] \in DOMAIN filenames /\ filenames[identifiers[f]] = f

\* a call that raised after it had changed both dicts
C1_Witness ==
    /\ last.op = "add"
    /\ last.err = "IoError"
    /\ filenames # pass.start
    /\ Cardinality(DOMAIN filenames) >= 2
    /\ temporary_filenames # {}

\* C2: after a pass that started with the directory matching the loaded map,
\* in which every request returned (distinct identifiers, distinct filenames)
\* and finish_sync returned, the tracked identifiers are the requested ones
\* under their requested names and the directory holds exactly their files.
C2_FinalState ==
    ( /\ last.op = "finish_sync"
      /\ last.err = "none"
      /\ pass.clean
      /\ pass.ok
      /\ env.fault = "none" )
    => ( /\ filenames = pass.requested
         /\ DiskMatches(pass.requested, disk) )

\* C3: fs.add(i, nameB) with i mapped to nameA (file present) and nameB
\* neither mapped nor on disk renames the file nameA -> nameB, maps i to
\* nameB, calls no creator and deletes nothing.
C3_RenameWithoutRecreation ==
    [][( /\ Called(last', "add")
         /\ last'.failAt = 0
         /\ last'.id \in DOMAIN filenames
         /\ filenames[last'.id] # last'.filename
         /\ disk[filenames[last'.id]] # Absent
         /\ last'.filename \notin DOMAIN identifiers
         /\ disk[last'.filename] = Absent )
       => ( /\ last'.err = "none"
            /\ last'.calls = <<PortCall("rename", filenames[last'.id], last'.filename)>>
            /\ last'.id \in DOMAIN filenames'
            /\ filenames'[last'.id] = last'.filename
            /\ disk'[last'.filename] = disk[filenames[last'.id]]
            /\ disk'[filenames[last'.id]] = Absent )
      ]_vars

\* C4: a pass that starts with c -> x, d -> y (both files on disk), requests
\* c -> y and d -> x and ends with finish_sync returning has c mapped to y and
\* d mapped to x, each file with its content, and no creator called for c or d.
C4_SwapResolution ==
    \A c, d \in Ids :
        ( /\ c # d
          /\ last.op = "finish_sync"
          /\ last.err = "none"
          /\ pass.clean
          /\ pass.ok
          /\ env.fault = "none"
          /\ {c, d} \subseteq DOMAIN pass.start
          /\ {c, d} \subseteq DOMAIN pass.requested
          /\ pass.requested[c] = pass.start[d]
          /\ pass.requested[d] = pass.start[c] )
        => ( /\ {c, d} \subseteq DOMAIN filenames
             /\ filenames[c] = pass.start[d]
             /\ filenames[d] = pass.start[c]
             /\ disk[filenames[c]] = c
             /\ disk[filenames[d]] = d
             /\ c \notin pass.produced
             /\ d \notin pass.produced )

\* C5: fs.add(e, f) with e unknown and f held by b renames b's file to a
\* fresh uuid name, leaves b mapped to that name, in the temporary set and
\* not touched, and creates e's file under f with e's creator; and when b is
\* still so at finish_sync (not requested in the pass), finish_sync unmaps b
\* and deletes b's file.  (Every mapped file is on disk when the call is
\* made, and no fault: no port call fails on an existing path, no creator
\* raises.)
C5_CollisionDisplacement ==
    [][/\ ( ( /\ Called(last', "add")
               /\ env'.fault = "none"
               /\ (\A j \in DOMAIN filenames : disk[filenames[j]] # Absent)
               /\ last'.id \notin DOMAIN filenames
               /\ last'.filename \in DOMAIN identifiers )
             => LET e == last'.id
                    f == last'.filename
                    b == identifiers[f]
                IN /\ last'.err = "none"
                   /\ b \in DOMAIN filenames'
                   /\ filenames'[b] \in Temps
                   /\ filenames'[b] \notin DOMAIN identifiers
                   /\ disk[filenames'[b]] = Absent
                   /\ filenames'[b] \in temporary_filenames'
                   /\ filenames'[b] \notin touched_filenames'
                   /\ disk'[filenames'[b]] = disk[f]
                   /\ e \in DOMAIN filenames'
                   /\ filenames'[e] = f
                   /\ disk'[f] = e
                   /\ last'.calls = <<PortCall("rename", f, filenames'[b]),
                                      PortCall("creator", f, f)>> )
       /\ ( ( /\ Called(last', "finish_sync")
               /\ env'.fault = "none"
               /\ (\A j \in DOMAIN filenames : disk[filenames[j]] # Absent)
               /\ pass.phase = "InProgress" )
             => \A b \in DOMAIN filenames :
                  ( /\ filenames[b] \in temporary_filenames
                    /\ b \notin DOMAIN pass.requested )
                  => ( /\ b \notin DOMAIN filenames'
                       /\ filenames[b] \notin DOMAIN identifiers'
                       /\ disk'[filenames[b]] = Absent
                       /\ HasCall(last'.calls, "delete", filenames[b], filenames[b]) ) )
      ]_vars

\* e took b's name, b was not requested again, and finish_sync has unmapped
\* b and deleted the file it was evicted to
C5_Witness ==
    /\ last.op = "finish_sync"
    /\ env.fault = "none"
    /\ \E b \in DOMAIN pass.start, e \in DOMAIN pass.requested :
          /\ e \notin DOMAIN pass.start
          /\ b \notin DOMAIN pass.requested
          /\ pass.requested[e] = pass.start[b]
          /\ e \in pass.produced
          /\ e \in DOMAIN filenames
          /\ filenames[e] = pass.start[b]
          /\ disk[filenames[e]] = e
          /\ b \notin DOMAIN filenames
          /\ \E t \in Temps : /\ HasCall(last.calls, "delete", t, t)
                               /\ disk[t] = Absent

\* C6: in a pass that started with the directory matching the map, an
\* identifier that was mapped at pass start and is not requested stays mapped,
\* with its file on disk, through every request for other identifiers and
\* through save(): only finish_sync unmaps it and deletes its file.
C6_StaleRemoval ==
    ( /\ pass.phase \in {"InProgress", "Persisted"}
      /\ last.op \in {"init", "add", "save"}
      /\ pass.clean
      /\ pass.ok
      /\ env.fault = "none" )
    => \A j \in (DOMAIN pass.start) \ (DOMAIN pass.requested) :
          ( /\ j \in DOMAIN filenames
            /\ disk[filenames[j]] = j )

\* C7: save() never ends in NotFoundError, whatever calls came before it, and
\* when it returns the temporary set is empty and the stored record is the
\* current map.
C7_PersistAbortSafe ==
    last.op = "save"
    => ( /\ last.err # "NotFoundError"
         /\ (last.err = "none"
               => ( /\ temporary_filenames = {}
                    /\ stored = [present |-> TRUE,
                                  filenames |-> DictItems(filenames),
                                  identifiers |-> DictItems(identifiers)] )) )

\* C8: when the creator raises in fs.add(i, f, creator), afterwards i is not
\* mapped, f is not mapped, there is no file f, and the call ends with the
\* creator's exception; the same request with a creator that succeeds then
\* creates the file and maps i to f.
C8_RollbackOnProducerFailure ==
    [][/\ ( (Called(last', "add") /\ last'.prod = "raise")
             => ( /\ last'.id \notin DOMAIN filenames'
                  /\ last'.filename \notin DOMAIN identifiers'
                  /\ disk'[last'.filename] = Absent
                  /\ last'.err = "ProducerError" ) )
       /\ ( ( /\ Called(last, "add")
               /\ last.prod = "raise"
               /\ Called(last', "add")
               /\ last'.prod = "ok"
               /\ last'.failAt = 0
               /\ last'.id = last.id
               /\ last'.filename = last.filename )
             => ( /\ last'.err = "none"
                  /\ last'.id \in DOMAIN filenames'
                  /\ filenames'[last'.id] = last'.filename
                  /\ disk'[last'.filename] = last'.id ) )
      ]_vars

\* C9: when fs.add(i, f, creator) ends with the creator's exception or a port
\* error, every other identifier is mapped after the call exactly as before
\* it, and its file, if it was on disk under its mapped name, still is.
C9_FailureIsolation ==
    [][(Called(last', "add") /\ last'.err \in {"ProducerError", "IoError"})
       => \A j \in Ids \ {last'.id} :
            /\ (j \in DOMAIN filenames <=> j \in DOMAIN filenames')
            /\ (j \in DOMAIN filenames
                  => ( /\ filenames'[j] = filenames[j]
                       /\ (disk[filenames[j]] # Absent
                             => disk'[filenames'[j]] # Absent) ))
      ]_vars

\* C10: when a rename or delete fails inside fs.add although its path is
\* there, the call leaves the map as it found it, so that no identifier is
\* mapped to a name under which there is no file (given none was before).
C10_IoErrorRollback ==
    [][( /\ Called(last', "add")
         /\ last'.failAt > 0
         /\ (\A j \in DOMAIN filenames : disk[filenames[j]] # Absent) )
       => ( /\ last'.err = "IoError"
            /\ filenames' = filenames
            /\ (\A j \in DOMAIN filenames' : disk'[filenames'[j]] # Absent) )
      ]_vars

\* C11: fs.add(i, f) for an identifier the pass has already requested under
\* f (every request of the pass so far returned, i is mapped to f and f is
\* touched) calls no creator and no port, leaves both dicts, the directory and
\* the temporary set as they are, and leaves f touched.
C11_SamePassIdempotence ==
    [][( /\ Called(last', "add")
         /\ pass.phase = "InProgress"
         /\ pass.ok
         /\ last'.id \in DOMAIN pass.requested
         /\ pass.requested[last'.id] = last'.filename
         /\ last'.id \in DOMAIN filenames
         /\ filenames[last'.id] = last'.filename
         /\ last'.filename \in touched_filenames )
       => ( /\ last'.err = "none"
            /\ last'.calls = <<>>
            /\ filenames' = filenames
            /\ identifiers' = identifiers
            /\ disk' = disk
            /\ temporary_filenames' = temporary_filenames
            /\ touched_filenames' = touched_filenames \cup {last'.filename} )
      ]_vars

\* an identifier created earlier in the pass was requested again under the
\* same name, and the second call made no creator or port call
C11_Witness ==
    /\ last.op = "add"
    /\ last.err = "none"
    /\ last.calls = <<>>
    /\ last.id \in pass.produced
    /\ last.id \in DOMAIN filenames
    /\ filenames[last.id] = last.filename
    /\ last.id \notin DOMAIN pass.start

\* C12: in a pass that starts from what a completed pass left (the directory
\* holds exactly the mapped files, both sets empty) and requests pairs of the
\* loaded map only, each once, every fs.add makes no creator, rename or delete
\* call and leaves the map and the directory as they are; and when all pairs
\* were requested, so does finish_sync.
C12_CrossRunIdempotence ==
    [][/\ ( ( /\ Called(last', "add")
               /\ pass'.clean
               /\ pass'.ok
               /\ \A j \in DOMAIN pass'.requested :
                     /\ j \in DOMAIN pass'.start
                     /\ pass'.start[j] = pass'.requested[j] )
             => ( /\ last'.calls = <<>>
                  /\ pass'.produced = {}
                  /\ filenames' = pass'.start
                  /\ disk' = disk ) )
       /\ ( ( /\ Called(last', "finish_sync")
               /\ pass'.clean
               /\ pass'.ok
               /\ pass'.requested = pass'.start )
             => ( /\ last'.err = "none"
                  /\ last'.calls = <<>>
                  /\ pass'.produced = {}
                  /\ filenames' = pass'.start
                  /\ disk' = disk ) )
      ]_vars

\* both pairs of the loaded map were requested again and finish_sync returned
C12_Witness ==
    /\ last.op = "finish_sync"
    /\ last.err = "none"
    /\ pass.clean
    /\ pass.ok
    /\ Cardinality(DOMAIN pass.start) = 2
    /\ pass.requested = pass.start
    /\ filenames = pass.start
    /\ DiskMatches(pass.start, disk)

\* C13: fs.add(i, f, creator) with i mapped to f and no file under f (it was
\* removed from outside) calls the creator and nothing else - no rename - and
\* returns with i mapped to f, f touched and the new file under f.
C13_ExternallyDeletedRecovery ==
    [][( /\ Called(last', "add")
         /\ last'.prod = "ok"
         /\ last'.failAt = 0
         /\ last'.id \in DOMAIN filenames
         /\ filenames[last'.id] = last'.filename
         /\ disk[last'.filename] = Absent )
       => ( /\ last'.err = "none"
            /\ last'.calls = <<PortCall("creator", last'.filename, last'.filename)>>
            /\ last'.id \in DOMAIN filenames'
            /\ filenames'[last'.id] = last'.filename
            /\ identifiers'[last'.filename] = last'.id
            /\ last'.filename \in touched_filenames'
            /\ disk'[last'.filename] = last'.id )
      ]_vars

\* the file of a loaded pair was removed from outside and the pair was
\* requested: the creator ran and the pair is mapped and touched
C13_Witness ==
    /\ last.op = "add"
    /\ last.err = "none"
    /\ env.fault = "external"
    /\ last.id \in DOMAIN pass.start
    /\ pass.start[last.id] = last.filename
    /\ Cardinality(DOMAIN pass.requested) = 1
    /\ last.calls = <<PortCall("creator", last.filename, last.filename)>>
    /\ filenames[last.id] = last.filename
    /\ last.filename \in touched_filenames

\* C14: fs.add never ends with one of FilesystemState's RuntimeErrors
\* ("already exists" from add, "No such ..." / "doesn't exists" from remove,
\* get and touch), whatever the state and the arguments, also after a file
\* was removed from the directory from outside.
C14_NoStateErrorThroughRequest ==
    last.op = "add" => last.err \notin {"ConflictError", "NotFoundError"}

\* C15: the pickle file is written by save() only: fs.add, fs.finish_sync,
\* constructing the object and a save() that raises leave it as it is, and a
\* save() that returns leaves in it the two dicts as they are then.
C15_RecordChangedOnlyBySave ==
    [][/\ (last'.op \in {"init", "add", "finish_sync"} => stored' = stored)
       /\ (last'.op = "save"
             => stored' = IF last'.err = "none"
                          THEN [present |-> TRUE,
                                filenames |-> DictItems(filenames'),
                                identifiers |-> DictItems(identifiers')]
                          ELSE stored)
      ]_vars

\* requests and finish_sync have changed the map and the record still holds
\* the map that was loaded
C15_Witness ==
    /\ last.op = "finish_sync"
    /\ last.err = "none"
    /\ stored.present
    /\ stored.filenames = DictItems(pass.start)
    /\ filenames # pass.start
    /\ DOMAIN pass.requested # {}

\* C16: when a new identifier b is requested under the filename f that a new
\* identifier a was created under earlier in the same pass, b's creator is
\* called and b takes f, while a's file is renamed to a uuid name in the
\* temporary set; and finish_sync then leaves b tracked under f with its
\* file, a untracked and a's renamed file deleted.  (No port call fails on an
\* existing path, no creator raises, the pass started with the directory
\* matching the map.)
C16_SamePassCollisionLastWins ==
    [][/\ ( ( /\ Called(last', "add")
               /\ env'.fault = "none"
               /\ pass.phase = "InProgress"
               /\ pass.clean
               /\ pass.ok
               /\ last'.id \notin (DOMAIN pass.start) \cup (DOMAIN pass.requested)
               /\ last'.filename \in DOMAIN identifiers
               /\ identifiers[last'.filename] \notin DOMAIN pass.start
               /\ identifiers[last'.filename] \in DOMAIN pass.requested
               /\ pass.requested[identifiers[last'.filename]] = last'.filename )
             => LET b == last'.id
                    f == last'.filename
                    a == identifiers[f]
                IN /\ last'.err = "none"
                   /\ a \in pass.produced
                   /\ HasCall(last'.calls, "creator", f, f)
                   /\ b \in DOMAIN filenames'
                   /\ filenames'[b] = f
                   /\ disk'[f] = b
                   /\ a \in DOMAIN filenames'
                   /\ filenames'[a] \in temporary_filenames' \ touched_filenames'
                   /\ disk'[filenames'[a]] = a )
       /\ ( ( /\ Called(last', "finish_sync")
               /\ env'.fault = "none"
               /\ pass.phase = "InProgress"
               /\ pass.clean )
             => \A a, b \in (DOMAIN pass.requested) \ (DOMAIN pass.start) :
                  ( /\ a # b
                    /\ pass.requested[a] = pass.requested[b]
                    /\ {a, b} \subseteq DOMAIN filenames
                    /\ filenames[b] = pass.requested[b]
                    /\ filenames[a] \in temporary_filenames )
                  => ( /\ {a, b} \subseteq pass.produced
                       /\ b \in DOMAIN filenames'
                       /\ filenames'[b] = pass.requested[b]
                       /\ disk'[filenames'[b]] = b
                       /\ a \notin DOMAIN filenames'
                       /\ filenames[a] \notin DOMAIN identifiers'
                       /\ disk'[filenames[a]] = Absent
                       /\ HasCall(last'.calls, "delete", filenames[a], filenames[a]) ) )
      ]_vars

\* two new identifiers were requested under one filename; after finish_sync
\* the later one holds it and nothing of the earlier one is left
C16_Witness ==
    /\ last.op = "finish_sync"
    /\ env.fault = "none"
    /\ pass.clean
    /\ \E a, b \in (DOMAIN pass.requested) \ (DOMAIN pass.start) :
          /\ a # b
          /\ pass.requested[a] = pass.requested[b]
          /\ {a, b} \subseteq pass.produced
          /\ b \in DOMAIN filenames
          /\ filenames[b] = pass.requested[b]
          /\ disk[filenames[b]] = b
          /\ a \notin DOMAIN filenames
          /\ \A f \in Files : disk[f] # a

\* C17: fs.add(b, g) with b mapped to the uuid name it was evicted to in
\* this pass (file there) and g neither mapped nor on disk renames that file
\* to g and makes no other call - no creator, no delete; afterwards b is
\* mapped to g, g and every filename requested so far in the pass are
\* touched, and after finish_sync b is still tracked with its file under g.
C17_ReclaimAfterEviction ==
    [][/\ ( ( /\ Called(last', "add")
               /\ env'.fault = "none"
               /\ pass.phase = "InProgress"
               /\ pass.clean
               /\ pass.ok
               /\ last'.id \in DOMAIN filenames
               /\ filenames[last'.id] \in temporary_filenames
               /\ disk[filenames[last'.id]] # Absent
               /\ last'.filename \notin DOMAIN identifiers
               /\ disk[last'.filename] = Absent )
             => LET b == last'.id
                    g == last'.filename
                    u == filenames[b]
                IN /\ last'.err = "none"
                   /\ last'.calls = <<PortCall("rename", u, g)>>
                   /\ b \in DOMAIN filenames'
                   /\ filenames'[b] = g
                   /\ disk'[g] = disk[u]
                   /\ Values(pass'.requested) \subseteq touched_filenames' )
       /\ ( ( /\ Called(last', "finish_sync")
               /\ env'.fault = "none"
               /\ pass.phase = "InProgress"
               /\ pass.clean
               /\ pass.ok )
             => \A b \in (DOMAIN pass.start) \cap (DOMAIN pass.requested) :
                  ( /\ pass.requested[b] \notin Values(pass.start)
                    /\ pass.start[b] \in Values(pass.requested) )
                  => ( /\ b \in DOMAIN filenames'
                       /\ filenames'[b] = pass.requested[b]
                       /\ disk'[filenames'[b]] = b
                       /\ b \notin pass.produced ) )
      ]_vars

\* C18: finish_sync and save leave every filename that is touched when they
\* are called mapped to its identifier and leave its file in the directory,
\* also when the filename is in the temporary set.
C18_TouchedImpliesNotDeleted ==
    [][(Called(last', "finish_sync") \/ Called(last', "save"))
       => \A f \in touched_filenames \cap DOMAIN identifiers :
            /\ f \in DOMAIN identifiers'
            /\ identifiers'[f] = identifiers[f]
            /\ disk'[f] = disk[f]
      ]_vars

\* C19: after Filesystem(dirname), whatever record was loaded, the touched
\* set and the temporary set are empty; and they are both empty whenever
\* finish_sync has returned and whenever save has returned.
C19_EphemeralSetsReset ==
    ( \/ last.op = "init"
      \/ (last.op \in {"finish_sync", "save"} /\ last.err = "none") )
    => ( /\ touched_filenames = {}
         /\ temporary_filenames = {} )

\* finish_sync returned after a pass that had evicted a file: it deleted the
\* uuid file and both sets are empty
C19_Witness ==
    /\ last.op = "finish_sync"
    /\ last.err = "none"
    /\ DOMAIN pass.requested # {}
    /\ (\E t \in Temps : HasCall(last.calls, "delete", t, t))
    /\ touched_filenames = {}
    /\ temporary_filenames = {}

\* C20: a save() that returns writes the two dicts as they are after its
\* cleanup of the temporary filenames (none of them is in the record), and
\* Filesystem(dirname) constructed next on the same directory has the same
\* two dicts, inverse of each other.
C20_PersistenceRoundTrip ==
    [][/\ ( (Called(last', "save") /\ last'.err = "none")
             => ( /\ stored'.present
                  /\ DictOf(stored'.filenames) = filenames'
                  /\ DictOf(stored'.identifiers) = identifiers'
                  /\ \A f \in temporary_filenames : f \notin Values(filenames') ) )
       /\ ( (Called(last, "save") /\ last.err = "none" /\ Called(last', "init"))
             => ( /\ filenames' = filenames
                  /\ identifiers' = identifiers
                  /\ DOMAIN identifiers' = Values(filenames')
                  /\ \A i \in DOMAIN filenames' : identifiers'[filenames'[i]] = i ) )
      ]_vars

\* a new object was constructed after a save() had written a record that is
\* none of the initial ones, and holds the two dicts of that record
C20_Witness ==
    /\ last.op = "init"
    /\ stored.present
    /\ DictOf(stored.filenames) \notin InitialMaps
    /\ filenames = DictOf(stored.filenames)
    /\ identifiers = DictOf(stored.identifiers)
    /\ DictItems(filenames) = stored.filenames
    /\ \E i \in DOMAIN filenames : disk[filenames[i]] = i

\* C21: in a run of download(), fs.finish_sync is called only after every
\* fs.add of the run returned; no fs.add is called after finish_sync or save;
\* fs.save is called at most once, as the last call, and when download() is
\* over it has been called exactly once - after finish_sync when the loops
\* ended, and also after a KeyboardInterrupt and after any other exception.
C21_DriverProtocol ==
    LET t == run.trace
        n == Len(t)
    IN /\ \A k \in 1..n :
             t[k].op = "finish_sync"
             => \A j \in 1..(k - 1) : t[j].op = "add" /\ t[j].err = "none"
       /\ \A k \in 1..n :
             t[k].op = "add" => \A j \in 1..(k - 1) : t[j].op = "add"
       /\ \A k \in 1..n : t[k].op = "save" => k = n
       /\ run.pc = "done" => (n >= 1 /\ t[n].op = "save")
       /\ run.pc = "finally" => \A k \in 1..n : t[k].op # "save"
       /\ (run.pc = "done" /\ run.exc = "none")
             => ( /\ n >= 2
                  /\ \/ t[n - 1].op = "finish_sync"
                     \/ t[n - 1].err = "KeyboardInterrupt" )

\* a run that is over: one fs.add that returned, finish_sync, then save
C21_Witness ==
    /\ run.pc = "done"
    /\ Len(run.trace) = 3
    /\ run.trace[1].op = "add"
    /\ run.trace[2].op = "finish_sync"
    /\ run.trace[3].op = "save"
    /\ run.exc = "none"

\* C22: a call of a function wrapped with retry(E, tries=n), n >= 1, calls
\* the function at most n times; every attempt before the last one made
\* raised an exception in E; the call ends with the outcome of the last
\* attempt made - its result, or its exception unchanged - and it ends
\* before the n-th attempt only with a result or an exception not in E.
C22_BoundedRetry ==
    LET n == f_retry.tries
        k == f_retry.calls
    IN /\ (f_retry.pc # "idle" => k <= n)
       /\ (f_retry.pc # "idle"
             => \A j \in 1..(k - 1) : f_retry.script[j] = "checked")
       /\ (f_retry.pc \in {"returned", "raised"}
             => ( /\ k >= 1
                  /\ f_retry.out = Attempt(f_retry.script, k)
                  /\ (f_retry.pc = "returned" <=> f_retry.script[k] = "ok")
                  /\ (k < n => f_retry.script[k] # "checked") ))

\* with tries = 4 the first three attempts raised an exception in E and the
\* call ended with the fourth attempt's exception in E
C22_Witness ==
    /\ f_retry.pc = "raised"
    /\ f_retry.tries = 4
    /\ f_retry.calls = 4
    /\ f_retry.out = <<"checked", 4>>

\* C23: after requests that all returned (in a pass that started with the
\* directory matching the map, no port call failing on an existing path),
\* finish_sync and save call delete at most once for a path and only for a
\* path that has a file, so they do not end with the error of deleting a
\* missing file.
C23_CleanupDeletesOnlyExistingFiles ==
    [][( /\ (Called(last', "finish_sync") \/ Called(last', "save"))
         /\ env'.fault = "none"
         /\ pass.phase = "InProgress"
         /\ pass.clean
         /\ pass.ok )
       => ( /\ last'.err # "IoError"
            /\ \A j, k \in DOMAIN last'.calls :
                  ( /\ j # k
                    /\ last'.calls[j].op = "delete"
                    /\ last'.calls[k].op = "delete" )
                  => last'.calls[j].src # last'.calls[k].src )
      ]_vars

\* C24: when no file was removed from outside and no rename or delete
\* failed on an existing path (creators may have raised), after every
\* fs.add, fs.finish_sync and fs.save every mapped filename has a file in the
\* directory.
C24_TrackedFilesExist ==
    ( /\ last.op \in {"add", "finish_sync", "save"}
      /\ env.fault \in {"none", "creator"} )
    => \A i \in DOMAIN filenames : disk[filenames[i]] # Absent

====
